---- MODULE Spec2Model ----
(***************************************************************************)
(* Model of the Captains-Log notebook (src/tinker.ipynb).                  *)
(*                                                                         *)
(* The notebook keeps three globals in the kernel namespace: model,        *)
(* result and transcript_df.  Its code cells are                           *)
(*   load cell        model = whisper.load_model("model/medium.en.pt")     *)
(*   transcribe cell  result = model.transcribe("data/apache.mp4")         *)
(*                    print(result["text"])                                *)
(*   projection cell  transcript_df = pd.DataFrame(result['segments'])     *)
(*                    transcript_df = transcript_df[['start','end','text']]*)
(* A cell that raises stops at the raising statement; the bindings made by *)
(* the statements before it stay in the namespace.                         *)
(***************************************************************************)
EXTENDS Integers, Sequences, FiniteSets, TLC

VARIABLES model, result, transcript_df, lastCell, outcome, upstream, prev, pc

vars == <<model, result, transcript_df, lastCell, outcome, upstream, prev, pc>>

\* Longest segment list the provider returns in the model.
MaxSegs == 2

\* Number of callers that run the projection statements concurrently (SpecConc).
NumCallers == 2

Callers == 1..NumCallers

(***************************************************************************)
(* Python values.  Every cell value has the same record shape so that any  *)
(* two of them can be compared.                                            *)
(***************************************************************************)
F(n) == [kind |-> "float", num |-> n, str |-> ""]
I(n) == [kind |-> "int", num |-> n, str |-> ""]
S(s) == [kind |-> "str", num |-> 0, str |-> s]
NaN == [kind |-> "nan", num |-> 0, str |-> ""]

\* A segment is a Python dict: an insertion-ordered sequence of key/value items.
Item(key, val) == [k |-> key, v |-> val]

\* A segment as the provider emits it: id first, then start, end, text.
SegA == << Item("id", I(0)), Item("start", F(0)), Item("end", F(7)), Item("text", S(" hello")) >>

\* A segment with the three fields only, in another key order.
SegB == << Item("text", S("world ")), Item("end", F(14)), Item("start", F(7)) >>

\* A malformed segment: no text.
SegC == << Item("id", I(2)), Item("start", F(14)), Item("end", F(19)) >>

SegmentPool == {SegA, SegB, SegC}

RECURSIVE SeqsUpTo(_, _)
SeqsUpTo(S0, n) ==
    IF n = 0 THEN { <<>> }
    ELSE LET shorter == SeqsUpTo(S0, n - 1)
         IN shorter \cup { Append(q, x) : q \in { s \in shorter : Len(s) = n - 1 }, x \in S0 }

Unbound == [type |-> "unbound", text |-> "", segments |-> <<>>]
None == [type |-> "NoneType", text |-> "", segments |-> <<>>]
Dict(segs) == [type |-> "dict", text |-> "transcript", segments |-> segs]

\* What model.transcribe may hand back: the provider is external, so its
\* return value is an input; malformed and null values are included.
Results == { Dict(q) : q \in SeqsUpTo(SegmentPool, MaxSegs) } \cup {None}

LoadFailures == {"RuntimeError: model not found"}
TranscribeFailures == {"RuntimeError: failed to load audio"}

(***************************************************************************)
(* dict access                                                             *)
(***************************************************************************)
HasKey(seg, key) == \E i \in 1..Len(seg) : seg[i].k = key
Get(seg, key) == seg[CHOOSE i \in 1..Len(seg) : seg[i].k = key].v
Keys(seg) == [i \in 1..Len(seg) |-> seg[i].k]

InSeq(x, q) == \E i \in 1..Len(q) : q[i] = x

(***************************************************************************)
(* pd.DataFrame(list of dicts)                                             *)
(***************************************************************************)
UnboundDF == [type |-> "unbound", columns |-> <<>>, rows |-> <<>>]

RECURSIVE AppendNew(_, _)
AppendNew(cols, keys) ==
    IF keys = <<>> THEN cols
    ELSE AppendNew(IF InSeq(Head(keys), cols) THEN cols ELSE Append(cols, Head(keys)),
                   Tail(keys))

\* Column labels: the union of the dicts' keys in order of first appearance.
RECURSIVE ColumnsOf(_)
ColumnsOf(segs) ==
    IF segs = <<>> THEN <<>>
    ELSE AppendNew(ColumnsOf(SubSeq(segs, 1, Len(segs) - 1)), Keys(segs[Len(segs)]))

\* One record aligned to the columns; a key the dict lacks is filled with NaN.
RowOf(seg, cols) ==
    [j \in 1..Len(cols) |-> IF HasKey(seg, cols[j]) THEN Get(seg, cols[j]) ELSE NaN]

\* dtype inference of one column: an integer column that also holds a float
\* or a NaN becomes float64; a column holding a string stays object.
ColumnKinds(rows, j) == { rows[i][j].kind : i \in 1..Len(rows) }

Upcast(rows, j) ==
    /\ "str" \notin ColumnKinds(rows, j)
    /\ ColumnKinds(rows, j) \cap {"float", "nan"} # {}

ConvertCell(rows, i, j) ==
    IF rows[i][j].kind = "int" /\ Upcast(rows, j) THEN F(rows[i][j].num) ELSE rows[i][j]

BuildFrame(segs) ==
    LET cols == ColumnsOf(segs)
        raw == [i \in 1..Len(segs) |-> RowOf(segs[i], cols)]
    IN [type |-> "DataFrame",
        columns |-> cols,
        rows |-> [i \in 1..Len(segs) |-> [j \in 1..Len(cols) |-> ConvertCell(raw, i, j)]]]

\* Mutant: the records are laid out last first.
DataFrameReversed(segs) ==
    BuildFrame([i \in 1..Len(segs) |-> segs[Len(segs) + 1 - i]])

\* Mutant: a record equal to an earlier one is dropped.
RECURSIVE DropDuplicates(_)
DropDuplicates(segs) ==
    IF segs = <<>> THEN <<>>
    ELSE LET init == SubSeq(segs, 1, Len(segs) - 1)
             last == segs[Len(segs)]
         IN IF InSeq(last, init) THEN DropDuplicates(init)
            ELSE Append(DropDuplicates(init), last)

DataFrameDeduplicated(segs) == BuildFrame(DropDuplicates(segs))

DataFrame(segs) == BuildFrame(segs)

(***************************************************************************)
(* df[[...]] : column selection by a list of labels                        *)
(***************************************************************************)
Wanted == <<"start", "end", "text">>

ColumnIndex(df, c) == CHOOSE j \in 1..Len(df.columns) : df.columns[j] = c

\* KeyError unless every requested label is a column of the frame.
CanSelect(df, want) == \A k \in 1..Len(want) : InSeq(want[k], df.columns)

\* Mutant: the requested columns are kept in the frame's own column order.
RECURSIVE KeepInFrameOrder(_, _)
KeepInFrameOrder(cols, want) ==
    IF cols = <<>> THEN <<>>
    ELSE IF InSeq(Head(cols), want) THEN <<Head(cols)>> \o KeepInFrameOrder(Tail(cols), want)
    ELSE KeepInFrameOrder(Tail(cols), want)

GetItemFrameOrder(df, want) ==
    LET kept == KeepInFrameOrder(df.columns, want)
    IN [type |-> "DataFrame",
        columns |-> kept,
        rows |-> [i \in 1..Len(df.rows) |->
                     [k \in 1..Len(kept) |-> df.rows[i][ColumnIndex(df, kept[k])]]]]

GetItem(df, want) ==
    [type |-> "DataFrame",
     columns |-> want,
     rows |-> [i \in 1..Len(df.rows) |->
                  [k \in 1..Len(want) |-> df.rows[i][ColumnIndex(df, want[k])]]]]

(***************************************************************************)
(* The projection cell, statement by statement.  Each statement yields the *)
(* exception it raises ("ok" when none) and the binding of transcript_df   *)
(* that it leaves behind.                                                  *)
(***************************************************************************)

\* Mutant: a missing or null result is read as one with no segments.
Stmt115NoneAsEmpty(r, old) ==
    [exc |-> "ok", df |-> DataFrame(IF r.type = "dict" THEN r.segments ELSE <<>>)]

\* transcript_df = pd.DataFrame(result['segments'])
Stmt115(r, old) ==
    IF r.type = "unbound" THEN [exc |-> "NameError", df |-> old]
    ELSE IF r.type = "NoneType" THEN [exc |-> "TypeError", df |-> old]
    ELSE [exc |-> "ok", df |-> DataFrame(r.segments)]

\* transcript_df = transcript_df[['start', 'end', 'text']]
Stmt116(df) ==
    IF CanSelect(df, Wanted) THEN [exc |-> "ok", df |-> GetItem(df, Wanted)]
    ELSE [exc |-> "KeyError", df |-> df]

\* The whole cell: the second statement runs only if the first did not raise.
RunProject(r, old) ==
    LET first == Stmt115(r, old)
    IN IF first.exc # "ok" THEN first ELSE Stmt116(first.df)

(***************************************************************************)
(* State after construction: a fresh kernel, nothing bound, no cell run.   *)
(* upstream records what the provider raised in the last cell ("" when it  *)
(* raised nothing); prev remembers one earlier run of the projection cell  *)
(* (its input, exception and resulting binding) and whether a run on       *)
(* another input followed it; it is kept by SpecHistory only.              *)
(***************************************************************************)
NoCall == [arg |-> Unbound, exc |-> "", df |-> UnboundDF, between |-> FALSE]

\* prev after a run of the projection cell: the run is either remembered (if
\* none is yet) or, if it read another result than the remembered run, noted
\* as a run in between.
Remember(run) ==
    IF prev = NoCall
    THEN {prev, [arg |-> result, exc |-> run.exc, df |-> run.df, between |-> FALSE]}
    ELSE {[prev EXCEPT !.between = @ \/ (result # prev.arg)]}

Init ==
    /\ model = "unbound"
    /\ result = Unbound
    /\ transcript_df = UnboundDF
    /\ lastCell = "none"
    /\ outcome = "ok"
    /\ upstream = ""
    /\ prev = NoCall
    /\ pc = [p \in Callers |-> "idle"]

\* import whisper; import pandas as pd; model = whisper.load_model(...)
LoadCell ==
    /\ lastCell' = "load"
    /\ \/ /\ model' = "loaded"
          /\ outcome' = "ok"
          /\ upstream' = ""
       \/ \E e \in LoadFailures :
             /\ upstream' = e
             /\ outcome' = e
             /\ model' = model
    /\ UNCHANGED <<result, transcript_df, pc>>

\* Mutant: the cell catches the provider's failure and carries on with an
\* empty transcription.
TranscribeCellCatching ==
    /\ lastCell' = "transcribe"
    /\ \/ /\ model = "unbound"
          /\ outcome' = "NameError"
          /\ upstream' = ""
          /\ result' = result
       \/ /\ model = "loaded"
          /\ \E r \in Results :
                /\ result' = r
                /\ outcome' = IF r.type = "NoneType" THEN "TypeError" ELSE "ok"
                /\ upstream' = ""
       \/ /\ model = "loaded"
          /\ \E e \in TranscribeFailures :
                /\ upstream' = e
                /\ outcome' = "ok"
                /\ result' = Dict(<<>>)
    /\ UNCHANGED <<model, transcript_df, pc>>

\* result = model.transcribe("data/apache.mp4"); print(result["text"])
TranscribeCell ==
    /\ lastCell' = "transcribe"
    /\ \/ /\ model = "unbound"
          /\ outcome' = "NameError"
          /\ upstream' = ""
          /\ result' = result
       \/ /\ model = "loaded"
          /\ \E r \in Results :
                /\ result' = r
                /\ outcome' = IF r.type = "NoneType" THEN "TypeError" ELSE "ok"
                /\ upstream' = ""
       \/ /\ model = "loaded"
          /\ \E e \in TranscribeFailures :
                /\ upstream' = e
                /\ outcome' = e
                /\ result' = result
    /\ UNCHANGED <<model, transcript_df, pc>>

\* Mutant: the three fields are selected in place, in the segments themselves.
OnlyWanted(seg) ==
    LET RECURSIVE Keep(_)
        Keep(q) == IF q = <<>> THEN <<>>
                   ELSE IF InSeq(Head(q).k, Wanted) THEN <<Head(q)>> \o Keep(Tail(q))
                   ELSE Keep(Tail(q))
    IN Keep(seg)

ProjectCellInPlace ==
    LET run == RunProject(result, transcript_df)
    IN /\ lastCell' = "project"
       /\ outcome' = run.exc
       /\ upstream' = ""
       /\ transcript_df' = run.df
       /\ result' = IF run.exc = "ok"
                    THEN [result EXCEPT !.segments =
                             [i \in 1..Len(result.segments) |-> OnlyWanted(result.segments[i])]]
                    ELSE result
       /\ UNCHANGED <<model, pc>>

\* Mutant: the new rows are appended to the table already bound.
ProjectCellAppending ==
    LET run == RunProject(result, transcript_df)
    IN /\ lastCell' = "project"
       /\ outcome' = run.exc
       /\ upstream' = ""
       /\ transcript_df' = IF run.exc = "ok" /\ transcript_df.columns = Wanted
                           THEN [run.df EXCEPT !.rows = transcript_df.rows \o @]
                           ELSE run.df
       /\ UNCHANGED <<model, result, pc>>

\* The projection cell run by the kernel: both statements, one after the other.
ProjectCell ==
    LET run == RunProject(result, transcript_df)
    IN /\ lastCell' = "project"
       /\ outcome' = run.exc
       /\ upstream' = ""
       /\ transcript_df' = run.df
       /\ UNCHANGED <<model, result, pc>>

\* The notebook: the user runs the cells in any order, any number of times.
Next ==
    \/ LoadCell /\ prev' = prev
    \/ TranscribeCell /\ prev' = prev
    \/ ProjectCell /\ prev' = prev

Spec == Init /\ [][Next]_vars

(***************************************************************************)
(* The notebook with the history of projection runs kept in prev, from the *)
(* point where the model is loaded.                                        *)
(***************************************************************************)
InitHistory ==
    /\ model = "loaded"
    /\ result = Unbound
    /\ transcript_df = UnboundDF
    /\ lastCell = "load"
    /\ outcome = "ok"
    /\ upstream = ""
    /\ prev = NoCall
    /\ pc = [p \in Callers |-> "idle"]

NextHistory ==
    \/ TranscribeCell /\ prev' = prev
    \/ ProjectCell /\ prev' \in Remember([exc |-> outcome', df |-> transcript_df'])

SpecHistory == InitHistory /\ [][NextHistory]_vars

(***************************************************************************)
(* The two statements of the projection cell run by several callers over   *)
(* the same namespace, one statement per step.                             *)
(***************************************************************************)
InitConc ==
    /\ model = "loaded"
    /\ result \in Results
    /\ transcript_df = UnboundDF
    /\ lastCell = "transcribe"
    /\ outcome = IF result.type = "NoneType" THEN "TypeError" ELSE "ok"
    /\ upstream = ""
    /\ prev = NoCall
    /\ pc = [p \in Callers |-> "idle"]

Line115(p) ==
    LET run == Stmt115(result, transcript_df)
    IN /\ pc[p] = "idle"
       /\ transcript_df' = run.df
       /\ pc' = [pc EXCEPT ![p] = IF run.exc = "ok" THEN "built" ELSE "failed"]
       /\ UNCHANGED <<model, result, lastCell, outcome, upstream, prev>>

Line116(p) ==
    LET run == Stmt116(transcript_df)
    IN /\ pc[p] = "built"
       /\ transcript_df' = run.df
       /\ pc' = [pc EXCEPT ![p] = IF run.exc = "ok" THEN "done" ELSE "failed"]
       /\ UNCHANGED <<model, result, lastCell, outcome, upstream, prev>>

\* The caller has read transcript_df and may invoke the projection again.
Return(p) ==
    /\ pc[p] \in {"done", "failed"}
    /\ pc' = [pc EXCEPT ![p] = "idle"]
    /\ UNCHANGED <<model, result, transcript_df, lastCell, outcome, upstream, prev>>

NextConc == \E p \in Callers : Line115(p) \/ Line116(p) \/ Return(p)

SpecConc == InitConc /\ [][NextConc]_vars

(***************************************************************************)
(* Properties                                                              *)
(***************************************************************************)
Required == {"start", "end", "text"}

WellFormed(seg) ==
    /\ \A c \in Required : HasKey(seg, c)
    /\ Get(seg, "start").kind = "float"
    /\ Get(seg, "end").kind = "float"
    /\ Get(seg, "text").kind = "str"
    /\ 0 <= Get(seg, "start").num
    /\ Get(seg, "start").num <= Get(seg, "end").num

\* A TranscriptionResult as the data model defines it.
ValidResult(r) ==
    /\ r.type = "dict"
    /\ \A i \in 1..Len(r.segments) : WellFormed(r.segments[i])

\* The projection cell has just run; result is the input it read.
Projected == lastCell = "project"

\* C1: after the projection cell ran on a valid result, for every segment i
\* the cell did not raise and row i of transcript_df holds exactly that
\* segment's start, end and text (same order, same values).
C1_RowsPassThrough ==
    (Projected /\ ValidResult(result)) =>
        \A i \in 1..Len(result.segments) :
            /\ outcome = "ok"
            /\ transcript_df.type = "DataFrame"
            /\ i <= Len(transcript_df.rows)
            /\ \A c \in Required :
                  /\ InSeq(c, transcript_df.columns)
                  /\ transcript_df.rows[i][ColumnIndex(transcript_df, c)]
                        = Get(result.segments[i], c)

C1_Witness ==
    /\ Projected
    /\ outcome = "ok"
    /\ result = Dict(<<SegB, SegA>>)
    /\ transcript_df.rows = << <<F(7), F(14), S("world ")>>, <<F(0), F(7), S(" hello")>> >>

\* C2: after the projection cell ran on a valid result, transcript_df has as
\* many rows as the result has segments (duplicates included), and the cell
\* raised only if there were no segments at all.
C2_RowCount ==
    (Projected /\ ValidResult(result)) =>
        /\ transcript_df.type = "DataFrame"
        /\ Len(transcript_df.rows) = Len(result.segments)
        /\ (result.segments # <<>> => outcome = "ok")

C2_Witness ==
    /\ Projected
    /\ outcome = "ok"
    /\ result = Dict(<<SegA, SegA>>)
    /\ Len(transcript_df.rows) = 2
    /\ transcript_df.rows[1] = transcript_df.rows[2]

\* C3: whenever the projection cell completes without raising, transcript_df
\* has exactly the columns start, end, text in that order and every row has
\* exactly three values, whatever keys the segments carry and in whatever order.
C3_ThreeColumns ==
    (Projected /\ outcome = "ok") =>
        /\ transcript_df.columns = Wanted
        /\ \A i \in 1..Len(transcript_df.rows) : Len(transcript_df.rows[i]) = 3

C3_Witness ==
    /\ Projected
    /\ outcome = "ok"
    /\ result = Dict(<<SegB, SegA>>)
    /\ DataFrame(result.segments).columns = <<"text", "end", "start", "id">>
    /\ transcript_df.columns = Wanted

\* C4 (as claimed): projecting a result with no segments completes without
\* raising and leaves a table with zero rows.
C4_EmptyYieldsEmptyTable ==
    (Projected /\ result = Dict(<<>>)) =>
        /\ outcome = "ok"
        /\ transcript_df.type = "DataFrame"
        /\ transcript_df.rows = <<>>

\* C5 (as claimed): if some segment of the result lacks start, end or text,
\* the projection cell raises, and it never leaves a table in which a row
\* holds a placeholder for one of the three fields.
C5_MissingFieldFails ==
    (Projected /\ result.type = "dict"
        /\ \E i \in 1..Len(result.segments) : \E c \in Required :
              ~HasKey(result.segments[i], c)) =>
        /\ outcome # "ok"
        /\ \A i \in 1..Len(transcript_df.rows) : \A j \in 1..Len(transcript_df.columns) :
              transcript_df.columns[j] \in Required => transcript_df.rows[i][j] # NaN

C7_CallersIsolated ==
    \A p \in Callers :
        pc[p] = "done" => transcript_df = RunProject(result, UnboundDF).df

\* C8: a step in which the provider raises ends the cell with exactly that
\* failure and changes none of model, result, transcript_df; transcript_df is
\* rebound only by the projection cell reading a dict that transcribe
\* returned, and result only by a transcribe call that returned.
C8_UpstreamFailurePropagates ==
    [][/\ upstream' # "" =>
            /\ outcome' = upstream'
            /\ model' = model
            /\ result' = result
            /\ transcript_df' = transcript_df
       /\ transcript_df' # transcript_df =>
            /\ upstream' = ""
            /\ lastCell' = "project"
            /\ result.type = "dict"
            /\ result' = result
       /\ result' # result =>
            /\ upstream' = ""
            /\ lastCell' = "transcribe"
            /\ outcome' \in {"ok", "TypeError"}]_vars

C8_Witness ==
    /\ lastCell = "transcribe"
    /\ upstream \in TranscribeFailures
    /\ outcome = upstream
    /\ result = Dict(<<SegA>>)
    /\ transcript_df = RunProject(result, UnboundDF).df

\* C9: a run of the projection cell, whether it completes or raises, leaves
\* result (its text, its segments and every field of every segment) unchanged.
C9_InputUnchanged ==
    [][lastCell' = "project" => result' = result]_vars

C9_Witness ==
    /\ Projected
    /\ outcome = "ok"
    /\ result = Dict(<<SegA, SegB>>)
    /\ HasKey(result.segments[1], "id")
    /\ transcript_df.columns = Wanted

\* C10: a run of the projection cell on a result that an earlier run also
\* read ends the same way as that run and, when it completes, binds a table
\* equal to the earlier one, whatever ran in between.
C10_SameInputSameTable ==
    (Projected /\ prev # NoCall /\ prev.arg = result) =>
        /\ outcome = prev.exc
        /\ (outcome = "ok" => transcript_df = prev.df)

C10_Witness ==
    /\ Projected
    /\ outcome = "ok"
    /\ prev.between
    /\ prev.arg = result
    /\ result = Dict(<<SegA, SegB>>)
    /\ transcript_df = prev.df

====
